---- MODULE Spec2Model ----
(***************************************************************************)
(* Equipment lifecycle and procurement engine of Business_costs:           *)
(* the degradation tracker, the inventory manager service, and the two     *)
(* zustand stores (equipment store, inventory store) that drive them.      *)
(*                                                                         *)
(* Numbers are integers.  The code's health test                           *)
(*   (currentValue / maxValue) * 100 > 75                                  *)
(* is evaluated here as currentValue * 100 > 75 * maxValue, which is the   *)
(* same comparison for the integer values the model draws.                 *)
(* Arrays are sequences; Array.find is the first match.                    *)
(* An optional field of a result (updatedEquipment?, updatedConsumable?)   *)
(* is a sequence of length 0 or 1.                                         *)
(* Timestamps (lastUpdated) are 0 for the record's original stamp and 1    *)
(* for a stamp written by calculateDegradation.                            *)
(* useEquipmentStore.error is not carried: the equipment store's operations *)
(* only ever write null to it (no state update of that store throws).      *)
(* crypto.randomUUID() returns the first identifiers of UuidPool that occur *)
(* nowhere in the store: the stores only compare identifiers for equality, *)
(* so any fresh value behaves like this one.                               *)
(***************************************************************************)
EXTENDS Integers, Sequences, FiniteSets, TLC

\* ------------------------------------------------------------------ bounds
MaxQty == 5
MaxTxQty == 6
MaxHealth == 8
MaxRate == 2
MaxUsage == 2
MaxStock == 4
MaxStockTxQty == 3
MaxReorder == 2
MaxLog == 2
MaxInFlight == 2
InitialStock == 3
MaxConsumables == 2
MaxNeeds == 3

VARIABLES
    equipment,        \* useEquipmentStore.equipment : Seq(Equipment)
    consumables,      \* useInventoryStore.consumables : Seq(Consumable)
    transactions,     \* useInventoryStore.transactions : Seq(Transaction)
    procurementNeeds, \* useInventoryStore.procurementNeeds : Seq(ProcurementNeed)
    loading,          \* useInventoryStore.loading
    error,            \* useInventoryStore.error ("null" for null)
    microtasks,       \* continuations of the async addTransaction calls in flight
    result            \* the request last handed to the service, with what it returned

vars == <<equipment, consumables, transactions, procurementNeeds, loading,
          error, microtasks, result>>

\* ------------------------------------------------------------------ types
DegradationTypes == {"cycles", "hours", "time"}

EquipmentTxTypes == {"acquisition", "deployment", "return", "disposal"}

ConsumableTxTypes == {"purchase", "use", "disposal"}

EquipmentIds == {"e1", "e9"}

\* result: the request (kind, type, itemId, quantity), what the service returned
\* (success, message), and the item's counts when the request was made.
NoResult ==
    [kind |-> "none", type |-> "none", itemId |-> "none", quantity |-> 0,
     success |-> FALSE, message |-> "none", quantityBefore |-> 0, inUseBefore |-> 0]

\* ------------------------------------------------------- array helpers
\* items.find(x => x.id === id): the sequence <<first match>>, or <<>> (undefined)
FindById(s, id) ==
    LET hits == {i \in 1..Len(s) : s[i].id = id}
    IN  IF hits = {} THEN <<>>
        ELSE <<s[CHOOSE i \in hits : \A j \in hits : i <= j]>>

Max2(a, b) == IF a >= b THEN a ELSE b

\* ------------------------------------------------- DegradationTrackerService
GetHealthStatusInclusive(e) ==
    LET cv == e.degradation.currentValue
        mx == e.degradation.maxValue
    IN  IF cv * 100 >= 75 * mx THEN [status |-> "good", needsMaintenance |-> FALSE]
        ELSE IF cv * 100 >= 50 * mx THEN [status |-> "fair", needsMaintenance |-> FALSE]
        ELSE IF cv * 100 >= 25 * mx THEN [status |-> "poor", needsMaintenance |-> TRUE]
        ELSE [status |-> "critical", needsMaintenance |-> TRUE]

getHealthStatus(e) ==
    LET cv == e.degradation.currentValue
        mx == e.degradation.maxValue
    IN  IF cv * 100 > 75 * mx THEN [status |-> "good", needsMaintenance |-> FALSE]
        ELSE IF cv * 100 > 50 * mx THEN [status |-> "fair", needsMaintenance |-> FALSE]
        ELSE IF cv * 100 > 25 * mx THEN [status |-> "poor", needsMaintenance |-> TRUE]
        ELSE [status |-> "critical", needsMaintenance |-> TRUE]

\* usage counted whatever the degradation type
UsageOnAnyAxis(type, usage) == usage.cycles + usage.hours + usage.days

\* usage = [cycles, hours, days]; an absent axis is 0: `if (usage.cycles)` treats
\* undefined and 0 alike.
UsageOnAxis(type, usage) ==
    CASE type = "cycles" -> usage.cycles
      [] type = "hours" -> usage.hours
      [] type = "time" -> usage.days

CalculateDegradationNoFloor(d, usage) ==
    LET u == UsageOnAxis(d.type, usage)
        v == IF u # 0 THEN d.currentValue - u * d.degradationRate ELSE d.currentValue
    IN  [d EXCEPT !.currentValue = v, !.lastUpdated = 1]

\* calculateDegradation(equipment, usage), on the equipment's degradation record
calculateDegradation(d, usage) ==
    LET u == UsageOnAxis(d.type, usage)
        v == IF u # 0 THEN Max2(0, d.currentValue - u * d.degradationRate)
             ELSE d.currentValue
    IN  [d EXCEPT !.currentValue = v, !.lastUpdated = 1]

\* ------------------------------------------------- InventoryManagerService
getInventoryStatus(e) ==
    LET inMaintenance == IF getHealthStatus(e).needsMaintenance THEN 1 ELSE 0
    IN  [available |-> e.quantity - e.inUse - inMaintenance,
         deployed |-> e.inUse,
         maintenance |-> inMaintenance]

Failure(msg) == [success |-> FALSE, message |-> msg, updated |-> <<>>]

Success(rec) ==
    [success |-> TRUE, message |-> "Transaction processed successfully",
     updated |-> <<rec>>]

OneCycle == [cycles |-> 1, hours |-> 0, days |-> 0]

ApplyEquipmentTxNoDeployCheck(tx, item) ==
    CASE tx.type = "acquisition" ->
            Success([item EXCEPT !.quantity = @ + tx.quantity])
      [] tx.type = "deployment" ->
            Success([item EXCEPT !.inUse = @ + tx.quantity])
      [] tx.type = "return" ->
            IF item.inUse < tx.quantity THEN Failure("Invalid return quantity")
            ELSE Success([item EXCEPT
                    !.inUse = @ - tx.quantity,
                    !.degradation = calculateDegradation(item.degradation, OneCycle)])
      [] tx.type = "disposal" ->
            IF item.quantity < tx.quantity THEN Failure("Invalid disposal quantity")
            ELSE Success([item EXCEPT !.quantity = @ - tx.quantity])

ApplyEquipmentTxReturnsOne(tx, item) ==
    CASE tx.type = "acquisition" ->
            Success([item EXCEPT !.quantity = @ + tx.quantity])
      [] tx.type = "deployment" ->
            IF getInventoryStatus(item).available < tx.quantity
            THEN Failure("Insufficient available equipment")
            ELSE Success([item EXCEPT !.inUse = @ + tx.quantity])
      [] tx.type = "return" ->
            IF item.inUse < tx.quantity THEN Failure("Invalid return quantity")
            ELSE Success([item EXCEPT
                    !.inUse = @ - 1,
                    !.degradation = calculateDegradation(item.degradation, OneCycle)])
      [] tx.type = "disposal" ->
            IF item.quantity < tx.quantity THEN Failure("Invalid disposal quantity")
            ELSE Success([item EXCEPT !.quantity = @ - tx.quantity])

\* the switch of processEquipmentTransaction on the found item
ApplyEquipmentTx(tx, item) ==
    CASE tx.type = "acquisition" ->
            Success([item EXCEPT !.quantity = @ + tx.quantity])
      [] tx.type = "deployment" ->
            IF getInventoryStatus(item).available < tx.quantity
            THEN Failure("Insufficient available equipment")
            ELSE Success([item EXCEPT !.inUse = @ + tx.quantity])
      [] tx.type = "return" ->
            IF item.inUse < tx.quantity THEN Failure("Invalid return quantity")
            ELSE Success([item EXCEPT
                    !.inUse = @ - tx.quantity,
                    !.degradation = calculateDegradation(item.degradation, OneCycle)])
      [] tx.type = "disposal" ->
            IF item.quantity < tx.quantity THEN Failure("Invalid disposal quantity")
            ELSE Success([item EXCEPT !.quantity = @ - tx.quantity])

processEquipmentTransaction(tx, eqs) ==
    LET found == FindById(eqs, tx.equipmentId)
    IN  IF found = <<>> THEN Failure("Equipment not found")
        ELSE ApplyEquipmentTx(tx, found[1])

ApplyConsumableTxNoStockCheck(tx, c) ==
    CASE tx.type = "purchase" ->
            Success([c EXCEPT !.stockLevel = @ + tx.quantity])
      [] tx.type = "use" ->
            Success([c EXCEPT !.stockLevel = @ - tx.quantity])
      [] tx.type = "disposal" ->
            IF c.stockLevel < tx.quantity THEN Failure("Invalid disposal quantity")
            ELSE Success([c EXCEPT !.stockLevel = @ - tx.quantity])

\* the switch of processConsumableTransaction on the found consumable
ApplyConsumableTx(tx, c) ==
    CASE tx.type = "purchase" ->
            Success([c EXCEPT !.stockLevel = @ + tx.quantity])
      [] tx.type = "use" ->
            IF c.stockLevel < tx.quantity THEN Failure("Insufficient stock")
            ELSE Success([c EXCEPT !.stockLevel = @ - tx.quantity])
      [] tx.type = "disposal" ->
            IF c.stockLevel < tx.quantity THEN Failure("Invalid disposal quantity")
            ELSE Success([c EXCEPT !.stockLevel = @ - tx.quantity])

processConsumableTransaction(tx, cons) ==
    LET found == FindById(cons, tx.consumableId)
    IN  IF found = <<>> THEN Failure("Consumable not found")
        ELSE ApplyConsumableTx(tx, found[1])

\* whether processConsumableTransaction calls triggerReorder (a console.log)
\* before it returns
triggerReorder(tx, cons) ==
    LET r == processConsumableTransaction(tx, cons)
    IN  r.success /\ r.updated[1].stockLevel <= r.updated[1].reorderPoint

\* predictReplacement(equipment).daysUntilReplacement
DailyRate(d) ==
    CASE d.type = "cycles" -> d.degradationRate * 1
      [] d.type = "hours" -> d.degradationRate * 24
      [] d.type = "time" -> d.degradationRate

daysUntilReplacement(e) == e.degradation.currentValue \div DailyRate(e.degradation)

\* daysUntilReplacement < 30; with a daily rate of 0 the quotient is Infinity
\* or NaN, and neither is < 30
ReplacementSoon(e) == DailyRate(e.degradation) # 0 /\ daysUntilReplacement(e) < 30

EquipmentNeedWanted(e) == getInventoryStatus(e).available < 2 \/ ReplacementSoon(e)

EquipmentNeedNoReplacementUnit(e) ==
    LET available == getInventoryStatus(e).available
    IN  [id |-> "", itemType |-> "equipment", itemId |-> e.id,
         quantity |-> Max2(2 - available, 0),
         estimatedCost |-> e.acquisitionCost,
         priority |-> IF available = 0 THEN "high" ELSE "medium",
         reason |-> IF available < 2 THEN "Low stock level"
                    ELSE "Upcoming replacement needed",
         status |-> "pending"]

EquipmentNeed(e) ==
    LET available == getInventoryStatus(e).available
    IN  [id |-> "", itemType |-> "equipment", itemId |-> e.id,
         quantity |-> Max2(2 - available, 0) + (IF ReplacementSoon(e) THEN 1 ELSE 0),
         estimatedCost |-> e.acquisitionCost,
         priority |-> IF available = 0 THEN "high" ELSE "medium",
         reason |-> IF available < 2 THEN "Low stock level"
                    ELSE "Upcoming replacement needed",
         status |-> "pending"]

ConsumableNeedWantedBelow(c) == c.stockLevel < c.reorderPoint

ConsumableNeedWanted(c) == c.stockLevel <= c.reorderPoint

ConsumableNeed(c) ==
    LET orderQuantity == c.reorderPoint * 2 - c.stockLevel
    IN  [id |-> "", itemType |-> "consumable", itemId |-> c.id,
         quantity |-> orderQuantity,
         estimatedCost |-> orderQuantity * c.costPerUnit,
         priority |-> IF c.stockLevel <= c.minimumStock THEN "high" ELSE "medium",
         reason |-> "Stock below reorder point",
         status |-> "pending"]

SortByPriorityUnstable(needs) ==
    LET medium == SelectSeq(needs, LAMBDA n : n.priority = "medium")
    IN  SelectSeq(needs, LAMBDA n : n.priority = "high")
        \o [i \in 1..Len(medium) |-> medium[Len(medium) + 1 - i]]
        \o SelectSeq(needs, LAMBDA n : n.priority = "low")

\* Array.prototype.sort with the priority comparator: a stable sort
SortByPriority(needs) ==
    SelectSeq(needs, LAMBDA n : n.priority = "high")
    \o SelectSeq(needs, LAMBDA n : n.priority = "medium")
    \o SelectSeq(needs, LAMBDA n : n.priority = "low")

\* generateProcurementNeeds(equipment, consumables); uuids are the identifiers
\* crypto.randomUUID() hands out, in call order
generateProcurementNeeds(eqs, cons, uuids) ==
    LET fromEquipment == SelectSeq(eqs, EquipmentNeedWanted)
        fromConsumables == SelectSeq(cons, ConsumableNeedWanted)
        pushed == [i \in 1..Len(fromEquipment) |-> EquipmentNeed(fromEquipment[i])]
                  \o [i \in 1..Len(fromConsumables) |-> ConsumableNeed(fromConsumables[i])]
        needs == [i \in 1..Len(pushed) |-> [pushed[i] EXCEPT !.id = uuids[i]]]
    IN  SortByPriority(needs)

\* ------------------------------------------------------- useEquipmentStore
\* updateEquipment's new equipment array
updateEquipment(eqs, updated) ==
    [i \in 1..Len(eqs) |-> IF eqs[i].id = updated.id THEN updated ELSE eqs[i]]

\* updateDegradation's new equipment array
updateDegradation(eqs, usage) ==
    [i \in 1..Len(eqs) |->
        [eqs[i] EXCEPT !.degradation = calculateDegradation(eqs[i].degradation, usage)]]

\* ------------------------------------------------------- useInventoryStore
\* updateConsumable's new consumables array
updateConsumable(cons, updated) ==
    [i \in 1..Len(cons) |-> IF cons[i].id = updated.id THEN updated ELSE cons[i]]

UuidPool == <<"u1", "u2", "u3", "u4", "u5", "u6", "u7", "u8", "u9", "u10", "u11", "u12">>

IdsOf(s) == {s[i].id : i \in 1..Len(s)}

UsedIds == IdsOf(transactions) \cup IdsOf(procurementNeeds)
           \cup {microtasks[i].tx.id : i \in 1..Len(microtasks)}

\* the identifiers crypto.randomUUID() returns from now on, in call order
FreshIds == SelectSeq(UuidPool, LAMBDA u : u \notin UsedIds)

\* updateStock's state update (the callback handed to set), as
\* [thrown, consumables, transactions]; uuid is the new transaction's id
updateStockSet(cons, log, id, quantity, type, uuid) ==
    LET found == FindById(cons, id)
        newStock == IF type = "increment" THEN found[1].stockLevel + quantity
                    ELSE found[1].stockLevel - quantity
    IN  IF found = <<>> THEN
            [thrown |-> "Consumable not found", consumables |-> cons, transactions |-> log]
        ELSE IF newStock < 0 THEN
            [thrown |-> "Insufficient stock", consumables |-> cons, transactions |-> log]
        ELSE
            [thrown |-> "null",
             consumables |->
                updateConsumable(cons, [found[1] EXCEPT !.stockLevel = newStock]),
             transactions |->
                Append(log, [id |-> uuid, consumableId |-> id,
                             type |-> IF type = "increment" THEN "purchase" ELSE "use",
                             quantity |-> quantity])]

\* updateStock(id, quantity, type): the state update, then generateProcurementNeeds()
UpdateStock(id, quantity, type) ==
    LET u == updateStockSet(consumables, transactions, id, quantity, type, FreshIds[1])
    IN  /\ Len(transactions) < MaxLog
        /\ type = "increment" =>
              \A i \in 1..Len(consumables) : consumables[i].stockLevel + quantity <= MaxStock
        /\ consumables' = u.consumables
        /\ transactions' = u.transactions
        /\ procurementNeeds' =
              IF u.thrown = "null"
              THEN generateProcurementNeeds(equipment, u.consumables, Tail(FreshIds))
              ELSE procurementNeeds
        /\ error' = u.thrown
        /\ UNCHANGED <<equipment, loading, microtasks>>

\* addTransaction(transaction), up to its first await: set({loading: true}) and
\* the call of processTransaction, which reads both stores, calls the service
\* and suspends at `await` with the service's answer in hand.
AddTransaction(tx) ==
    LET r == IF "consumableId" \in DOMAIN tx
             THEN processConsumableTransaction(tx, consumables)
             ELSE processEquipmentTransaction(tx, equipment)
    IN  /\ Len(microtasks) < MaxInFlight
        /\ Len(transactions) + Len(microtasks) < MaxLog
        /\ loading' = TRUE
        /\ microtasks' = Append(microtasks,
              [stage |-> "processTransaction", tx |-> tx,
               success |-> r.success /\ r.updated # <<>>, updated |-> r.updated])
        /\ UNCHANGED <<equipment, consumables, transactions, procurementNeeds,
                       error, result>>

\* processTransaction after its await: write the service's answer back
ResumeProcessTransaction(m) ==
    /\ consumables' =
          IF m.success /\ "consumableId" \in DOMAIN m.tx
          THEN updateConsumable(consumables, m.updated[1]) ELSE consumables
    /\ equipment' =
          IF m.success /\ "equipmentId" \in DOMAIN m.tx
          THEN updateEquipment(equipment, m.updated[1]) ELSE equipment
    /\ error' = IF m.success /\ "consumableId" \in DOMAIN m.tx THEN "null" ELSE error
    /\ microtasks' = Append(Tail(microtasks), [m EXCEPT !.stage = "addTransaction"])
    /\ UNCHANGED <<transactions, loading>>

\* addTransaction after its await, without `if (success)`
ResumeAddTransactionAlways(m) ==
    /\ transactions' = Append(transactions, m.tx)
    /\ error' = "null"
    /\ loading' = FALSE
    /\ microtasks' = Tail(microtasks)
    /\ UNCHANGED <<equipment, consumables>>

\* addTransaction after its await: record the transaction when it was applied
ResumeAddTransaction(m) ==
    /\ transactions' = IF m.success THEN Append(transactions, m.tx) ELSE transactions
    /\ error' = IF m.success THEN "null" ELSE error
    /\ loading' = FALSE
    /\ microtasks' = Tail(microtasks)
    /\ UNCHANGED <<equipment, consumables>>

\* the JavaScript job queue runs the oldest continuation
RunMicrotask ==
    /\ microtasks # <<>>
    /\ LET m == Head(microtasks)
       IN  IF m.stage = "processTransaction" THEN ResumeProcessTransaction(m)
           ELSE ResumeAddTransaction(m)
    /\ UNCHANGED <<procurementNeeds, result>>

\* ------------------------------------------------------- consumable ledger
\* One consumable transaction handed to the service and, when it succeeds,
\* written back through updateConsumable (processTransaction's consumable
\* branch, run to completion).
ConsumableTransaction(tx) ==
    LET r == processConsumableTransaction(tx, consumables)
        found == FindById(consumables, tx.consumableId)
    IN  /\ tx.type = "purchase" =>
              \A i \in 1..Len(consumables) : consumables[i].stockLevel + tx.quantity <= MaxStock
        /\ consumables' = IF r.success THEN updateConsumable(consumables, r.updated[1])
                          ELSE consumables
        /\ error' = IF r.success THEN "null" ELSE error
        /\ result' = [kind |-> "consumableTx", type |-> tx.type, itemId |-> tx.consumableId,
                      quantity |-> tx.quantity, success |-> r.success,
                      message |-> r.message,
                      quantityBefore |-> IF found = <<>> THEN 0 ELSE found[1].stockLevel,
                      inUseBefore |-> 0,
                      reorder |-> triggerReorder(tx, consumables)]
        /\ UNCHANGED <<equipment, transactions, procurementNeeds, loading, microtasks>>

\* updateStock with its outcome observed
ObservedUpdateStock(id, quantity, type) ==
    LET found == FindById(consumables, id)
    IN  /\ UpdateStock(id, quantity, type)
        /\ result' = [kind |-> "updateStock", type |-> type, itemId |-> id,
                      quantity |-> quantity, success |-> error' = "null",
                      message |-> error',
                      quantityBefore |-> IF found = <<>> THEN 0 ELSE found[1].stockLevel,
                      inUseBefore |-> 0]

ConsumableIds == {"c1", "c9"}

ConsumableTxs ==
    [id : {"t1"}, consumableId : ConsumableIds, type : ConsumableTxTypes,
     quantity : 1..MaxStockTxQty]

InitConsumables ==
    { [id |-> "c1", costPerUnit |-> 2, stockLevel |-> s, minimumStock |-> m,
       reorderPoint |-> r] :
        s \in 0..MaxStock, m \in 0..MaxReorder, r \in 0..MaxReorder }

StockAsset ==
    [id |-> "e1", acquisitionCost |-> 10, quantity |-> 2, inUse |-> 0,
     degradation |-> [type |-> "cycles", maxValue |-> 40, currentValue |-> 40,
                      degradationRate |-> 1, lastUpdated |-> 0]]

InitStock ==
    /\ \E c \in {x \in InitConsumables : x.reorderPoint >= x.minimumStock} :
          consumables = <<c>>
    /\ equipment = <<StockAsset>>
    /\ transactions = <<>>
    /\ procurementNeeds = <<>>
    /\ loading = FALSE
    /\ error = "null"
    /\ microtasks = <<>>
    /\ result = NoResult

NextStock ==
    \/ \E tx \in ConsumableTxs : ConsumableTransaction(tx)
    \/ \E id \in ConsumableIds, q \in 1..MaxStockTxQty, type \in {"increment", "decrement"} :
          ObservedUpdateStock(id, q, type)

SpecStock == InitStock /\ [][NextStock]_vars

\* ------------------------------------------------------------ asset ledger
\* One equipment transaction handed to the service and, when it succeeds,
\* written back through updateEquipment (processTransaction's equipment branch,
\* run to completion).
EquipmentTransaction(tx) ==
    LET r == processEquipmentTransaction(tx, equipment)
        found == FindById(equipment, tx.equipmentId)
    IN  /\ tx.type = "acquisition" =>
              \A i \in 1..Len(equipment) : equipment[i].quantity + tx.quantity <= MaxQty
        /\ equipment' = IF r.success THEN updateEquipment(equipment, r.updated[1])
                        ELSE equipment
        /\ result' = [kind |-> "equipmentTx", type |-> tx.type, itemId |-> tx.equipmentId,
                      quantity |-> tx.quantity, success |-> r.success,
                      message |-> r.message,
                      quantityBefore |-> IF found = <<>> THEN 0 ELSE found[1].quantity,
                      inUseBefore |-> IF found = <<>> THEN 0 ELSE found[1].inUse]
        /\ UNCHANGED <<consumables, transactions, procurementNeeds, loading,
                       error, microtasks>>

UpdateDegradation(usage) ==
    /\ equipment' = updateDegradation(equipment, usage)
    /\ result' = [NoResult EXCEPT !.kind = "updateDegradation"]
    /\ UNCHANGED <<consumables, transactions, procurementNeeds, loading,
                   error, microtasks>>

Usages ==
    [cycles : 0..MaxUsage, hours : {0}, days : {0}]
    \cup [cycles : {0}, hours : 0..MaxUsage, days : {0}]
    \cup [cycles : {0}, hours : {0}, days : 0..MaxUsage]
    \cup {[cycles |-> 1, hours |-> 1, days |-> 1]}

EquipmentTxs ==
    [id : {"t"}, equipmentId : EquipmentIds, type : EquipmentTxTypes,
     quantity : 1..MaxTxQty]

InitAssets ==
    { [id |-> "e1", acquisitionCost |-> 10, quantity |-> q, inUse |-> u,
       degradation |-> [type |-> t, maxValue |-> MaxHealth, currentValue |-> cv,
                        degradationRate |-> rate, lastUpdated |-> 0]] :
        q \in 0..MaxQty, u \in 0..MaxQty, t \in DegradationTypes,
        cv \in 0..MaxHealth, rate \in 1..MaxRate }

InitAsset ==
    /\ \E a \in {x \in InitAssets : x.inUse <= x.quantity} : equipment = <<a>>
    /\ consumables = <<>>
    /\ transactions = <<>>
    /\ procurementNeeds = <<>>
    /\ loading = FALSE
    /\ error = "null"
    /\ microtasks = <<>>
    /\ result = NoResult

NextAsset ==
    \/ \E tx \in EquipmentTxs : EquipmentTransaction(tx)
    \/ \E usage \in Usages : UpdateDegradation(usage)

SpecAsset == InitAsset /\ [][NextAsset]_vars

\* ------------------------------------------------------------- the stores
AddConsumable(c) ==
    /\ Len(consumables) < MaxConsumables
    /\ consumables' = Append(consumables, c)
    /\ error' = "null"
    /\ UNCHANGED <<equipment, transactions, procurementNeeds, loading, microtasks, result>>

\* removeConsumable's filters, as [consumables, procurementNeeds, transactions]
removeConsumableSet(cons, needs, log, id) ==
    [consumables |-> SelectSeq(cons, LAMBDA c : c.id # id),
     procurementNeeds |-> SelectSeq(needs, LAMBDA n : n.itemId # id),
     transactions |->
        SelectSeq(log, LAMBDA t : "consumableId" \in DOMAIN t /\ t.consumableId # id)]

RemoveConsumable(id) ==
    LET u == removeConsumableSet(consumables, procurementNeeds, transactions, id)
    IN  /\ consumables' = u.consumables
        /\ procurementNeeds' = u.procurementNeeds
        /\ transactions' = u.transactions
        /\ error' = "null"
        /\ UNCHANGED <<equipment, loading, microtasks, result>>

\* updateTransaction's new transactions array
updateTransaction(log, updated) ==
    [i \in 1..Len(log) |-> IF log[i].id = updated.id THEN updated ELSE log[i]]

UpdateTransaction(updated) ==
    /\ transactions' = updateTransaction(transactions, updated)
    /\ error' = "null"
    /\ UNCHANGED <<equipment, consumables, procurementNeeds, loading, microtasks, result>>

\* removeTransaction's new transactions array
removeTransaction(log, id) == SelectSeq(log, LAMBDA t : t.id # id)

RemoveTransaction(id) ==
    /\ transactions' = removeTransaction(transactions, id)
    /\ error' = "null"
    /\ UNCHANGED <<equipment, consumables, procurementNeeds, loading, microtasks, result>>

AddProcurementNeed(need) ==
    /\ Len(procurementNeeds) < MaxNeeds
    /\ procurementNeeds' = Append(procurementNeeds, need)
    /\ error' = "null"
    /\ UNCHANGED <<equipment, consumables, transactions, loading, microtasks, result>>

\* updateProcurementNeed's new procurementNeeds array
updateProcurementNeed(needs, updated) ==
    [i \in 1..Len(needs) |-> IF needs[i].id = updated.id THEN updated ELSE needs[i]]

UpdateProcurementNeed(updated) ==
    /\ procurementNeeds' = updateProcurementNeed(procurementNeeds, updated)
    /\ error' = "null"
    /\ UNCHANGED <<equipment, consumables, transactions, loading, microtasks, result>>

RemoveProcurementNeed(id) ==
    /\ procurementNeeds' = SelectSeq(procurementNeeds, LAMBDA n : n.id # id)
    /\ error' = "null"
    /\ UNCHANGED <<equipment, consumables, transactions, loading, microtasks, result>>

\* fulfillProcurement's final state update on the needs then in the store
markReceived(needs, id) ==
    [i \in 1..Len(needs) |->
        IF needs[i].id = id THEN [needs[i] EXCEPT !.status = "received"] ELSE needs[i]]

\* fulfillProcurement(id): find the need, updateStock for a consumable need
\* (which ends in generateProcurementNeeds), then mark the need received
FulfillProcurement(id) ==
    LET found == FindById(procurementNeeds, id)
        need == found[1]
        restock == found # <<>> /\ need.itemType = "consumable"
        u == updateStockSet(consumables, transactions, need.itemId, need.quantity,
                            "increment", FreshIds[1])
        stocked == restock /\ u.thrown = "null"
        needsAfterStock ==
            IF stocked
            THEN generateProcurementNeeds(equipment, u.consumables, Tail(FreshIds))
            ELSE procurementNeeds
    IN  /\ restock => Len(transactions) < MaxLog
        /\ restock => \A i \in 1..Len(consumables) :
                          consumables[i].stockLevel + need.quantity <= MaxStock
        /\ consumables' = IF stocked THEN u.consumables ELSE consumables
        /\ transactions' = IF stocked THEN u.transactions ELSE transactions
        /\ procurementNeeds' =
              IF found = <<>> THEN procurementNeeds ELSE markReceived(needsAfterStock, id)
        /\ error' = IF found = <<>> THEN "Failed to fulfill procurement" ELSE "null"
        /\ UNCHANGED <<equipment, loading, microtasks, result>>

GenerateProcurementNeeds ==
    /\ procurementNeeds' = generateProcurementNeeds(equipment, consumables, FreshIds)
    /\ error' = "null"
    /\ UNCHANGED <<equipment, consumables, transactions, loading, microtasks, result>>

\* syncInventory: the consumables of generateInventoryReport, which are the
\* store's own, then generateProcurementNeeds()
SyncInventory ==
    /\ consumables' = [i \in 1..Len(consumables) |-> consumables[i]]
    /\ procurementNeeds' = generateProcurementNeeds(equipment, consumables, FreshIds)
    /\ error' = "null"
    /\ UNCHANGED <<equipment, transactions, loading, microtasks, result>>

\* ----------------------------------------------------- procurement needs
Statuses == {"pending", "approved", "ordered", "received"}

NewNeeds ==
    { [id |-> "n1", itemType |-> "equipment", itemId |-> "e1", quantity |-> 1,
       estimatedCost |-> 10, priority |-> "low", reason |-> "Manual request",
       status |-> "pending"] }

\* a need of the store with its status edited, as an edit form submits it
EditedNeeds ==
    { [procurementNeeds[i] EXCEPT !.status = st] :
        i \in 1..Len(procurementNeeds), st \in Statuses }

ProcurementConsumables ==
    { <<[id |-> "c1", costPerUnit |-> 2, stockLevel |-> s, minimumStock |-> 1,
         reorderPoint |-> 2]>> : s \in 0..MaxStock }

ProcurementEquipment ==
    <<[id |-> "e1", acquisitionCost |-> 10, quantity |-> 2, inUse |-> 0,
       degradation |-> [type |-> "cycles", maxValue |-> 40, currentValue |-> 40,
                        degradationRate |-> 1, lastUpdated |-> 0]]>>

InitProcurement ==
    /\ equipment \in {<<>>, ProcurementEquipment}
    /\ consumables \in ProcurementConsumables
    /\ transactions = <<>>
    /\ procurementNeeds = <<>>
    /\ loading = FALSE
    /\ error = "null"
    /\ microtasks = <<>>
    /\ result = NoResult

NextProcurement ==
    \/ \E id \in {"c1"}, type \in {"increment", "decrement"} :
          UpdateStock(id, 1, type) /\ UNCHANGED result
    \/ \E n \in NewNeeds : AddProcurementNeed(n)
    \/ \E n \in EditedNeeds : UpdateProcurementNeed(n)
    \/ \E id \in IdsOf(procurementNeeds) : RemoveProcurementNeed(id)
    \/ \E id \in IdsOf(procurementNeeds) \cup {"n9"} : FulfillProcurement(id)
    \/ GenerateProcurementNeeds
    \/ SyncInventory

SpecProcurement == InitProcurement /\ [][NextProcurement]_vars

\* --------------------------------------------------------- transaction log
LogTxs ==
    { [id |-> "t1", consumableId |-> "c2", type |-> "use", quantity |-> 1],
      [id |-> "t2", equipmentId |-> "e1", type |-> "deployment", quantity |-> 1] }

\* a logged transaction with its quantity edited, as an edit form submits it
EditedTransactions ==
    { [transactions[i] EXCEPT !.quantity = 2] : i \in 1..Len(transactions) }

LogConsumable1 ==
    [id |-> "c1", costPerUnit |-> 2, stockLevel |-> 1, minimumStock |-> 1,
     reorderPoint |-> 2]

LogConsumable2 ==
    [id |-> "c2", costPerUnit |-> 1, stockLevel |-> 2, minimumStock |-> 0,
     reorderPoint |-> 1]

InitLog ==
    /\ equipment = ProcurementEquipment
    /\ consumables = <<LogConsumable1, LogConsumable2>>
    /\ transactions = <<>>
    /\ procurementNeeds = <<>>
    /\ loading = FALSE
    /\ error = "null"
    /\ microtasks = <<>>
    /\ result = NoResult

\* submissions here are awaited: a call starts when none is in flight
NextLog ==
    \/ \E c \in {LogConsumable1, LogConsumable2} : AddConsumable(c)
    \/ \E id \in {"c1", "c2"} : RemoveConsumable(id)
    \/ \E tx \in LogTxs : microtasks = <<>> /\ AddTransaction(tx)
    \/ RunMicrotask
    \/ \E t \in EditedTransactions : UpdateTransaction(t)
    \/ \E id \in IdsOf(transactions) : RemoveTransaction(id)

SpecLog == InitLog /\ [][NextLog]_vars

\* ------------------------------------------------- concurrent submissions
ConcConsumables ==
    <<[id |-> "c1", costPerUnit |-> 2, stockLevel |-> InitialStock, minimumStock |-> 1,
       reorderPoint |-> 2]>>

ConcEquipment ==
    <<[id |-> "e1", acquisitionCost |-> 10, quantity |-> 2, inUse |-> 0,
       degradation |-> [type |-> "cycles", maxValue |-> 40, currentValue |-> 40,
                        degradationRate |-> 10, lastUpdated |-> 0]]>>

ConcTxs ==
    [id : {"t1", "t2"}, consumableId : {"c1"}, type : ConsumableTxTypes, quantity : 1..2]
    \cup [id : {"t1", "t2"}, equipmentId : {"e1"}, type : EquipmentTxTypes, quantity : 1..2]

InitConc ==
    /\ consumables = ConcConsumables
    /\ equipment = ConcEquipment
    /\ transactions = <<>>
    /\ procurementNeeds = <<>>
    /\ loading = FALSE
    /\ error = "null"
    /\ microtasks = <<>>
    /\ result = NoResult

NextConc ==
    \/ \E tx \in ConcTxs : AddTransaction(tx)
    \/ RunMicrotask

SpecConc == InitConc /\ [][NextConc]_vars

\* the transactions of txs applied one after the other through the service:
\* whether all were accepted, and the entities they leave
RECURSIVE SerialOutcome(_, _, _)
SerialOutcome(txs, cons, eqs) ==
    IF txs = <<>> THEN [accepted |-> TRUE, consumables |-> cons, equipment |-> eqs]
    ELSE LET tx == Head(txs)
             isConsumable == "consumableId" \in DOMAIN tx
             r == IF isConsumable THEN processConsumableTransaction(tx, cons)
                  ELSE processEquipmentTransaction(tx, eqs)
         IN  IF ~r.success
             THEN [accepted |-> FALSE, consumables |-> cons, equipment |-> eqs]
             ELSE SerialOutcome(Tail(txs),
                      IF isConsumable THEN updateConsumable(cons, r.updated[1]) ELSE cons,
                      IF isConsumable THEN eqs ELSE updateEquipment(eqs, r.updated[1]))

\* ------------------------------------------------------------------ claims
Rank(status) ==
    CASE status = "pending" -> 0
      [] status = "approved" -> 1
      [] status = "ordered" -> 2
      [] status = "received" -> 3

IsEquipmentTx(r, type) == r.kind = "equipmentTx" /\ r.type = type /\ r.itemId = "e1"

\* C1: after any sequence of asset transactions applied through
\* processEquipmentTransaction, every asset has 0 <= inUse <= quantity.
C1_InUseWithinQuantity ==
    \A i \in 1..Len(equipment) :
        0 <= equipment[i].inUse /\ equipment[i].inUse <= equipment[i].quantity

\* C4: a deployment of q units succeeds exactly when
\* quantity - inUse - (1 if needsMaintenance else 0) >= q; on success inUse grows
\* by q and nothing else changes; otherwise it fails with the insufficient
\* availability message and the asset is unchanged.
C4_DeploymentStep ==
    IsEquipmentTx(result', "deployment") =>
        LET e == equipment[1]
            e2 == equipment'[1]
            q == result'.quantity
            flag == IF getHealthStatus(e).needsMaintenance THEN 1 ELSE 0
            available == e.quantity - e.inUse - flag
        IN  /\ result'.success <=> available >= q
            /\ result'.success => e2 = [e EXCEPT !.inUse = e.inUse + q]
            /\ ~result'.success =>
                  /\ result'.message = "Insufficient available equipment"
                  /\ e2 = e

C4_Deployment == [][C4_DeploymentStep]_vars

\* a deployment of 6 units against quantity 5, inUse 0, full health was rejected
C4_Witness ==
    /\ IsEquipmentTx(result, "deployment")
    /\ result.quantity = 6 /\ ~result.success
    /\ equipment[1].quantity = 5 /\ equipment[1].inUse = 0
    /\ equipment[1].degradation.currentValue = equipment[1].degradation.maxValue

\* C5: a return of q units fails with the invalid-quantity message and changes
\* nothing when q > inUse; when q <= inUse it sets inUse to inUse - q and, for
\* every degradation type, currentValue to max(0, currentValue - degradationRate).
C5_ReturnStep ==
    IsEquipmentTx(result', "return") =>
        LET e == equipment[1]
            e2 == equipment'[1]
            q == result'.quantity
            d == e.degradation
        IN  /\ q > e.inUse =>
                  /\ ~result'.success
                  /\ result'.message = "Invalid return quantity"
                  /\ e2 = e
            /\ q <= e.inUse =>
                  /\ result'.success
                  /\ e2.inUse = e.inUse - q
                  /\ e2.degradation.currentValue =
                        Max2(0, d.currentValue - d.degradationRate)

C5_ReturnDegradesEveryType == [][C5_ReturnStep]_vars

\* C6: a successful deployment of q followed by a return of q succeeds and
\* restores inUse and quantity to their values before the deployment.
C6_RoundTripStep ==
    (/\ IsEquipmentTx(result, "deployment") /\ result.success
     /\ IsEquipmentTx(result', "return") /\ result'.quantity = result.quantity) =>
        /\ result'.success
        /\ equipment'[1].inUse = result.inUseBefore
        /\ equipment'[1].quantity = result.quantityBefore

C6_RoundTrip == [][C6_RoundTripStep]_vars

\* a deployment of 2 succeeded on an asset that already had units in use
C6_Witness ==
    /\ IsEquipmentTx(result, "deployment") /\ result.success
    /\ result.quantity = 2 /\ result.inUseBefore = 1
    /\ equipment[1].inUse = 3

\* C7: 0 <= currentValue <= maxValue always, and currentValue never grows.
C7_InRange ==
    \A i \in 1..Len(equipment) :
        /\ 0 <= equipment[i].degradation.currentValue
        /\ equipment[i].degradation.currentValue <= equipment[i].degradation.maxValue

C7_NeverGrows ==
    \A i \in 1..Len(equipment) :
        equipment'[i].degradation.currentValue <= equipment[i].degradation.currentValue

C7_HealthBoundedMonotone == []C7_InRange /\ [][C7_NeverGrows]_vars

\* over-usage was applied and the value stopped at 0
C7_Witness ==
    /\ result.kind = "updateDegradation"
    /\ equipment[1].degradation.currentValue = 0
    /\ equipment[1].degradation.lastUpdated = 1

AtFraction(e, num, den) ==
    e.degradation.currentValue * den = num * e.degradation.maxValue

\* C8 (as stated): exactly 75% is good, exactly 50% is fair, exactly 25% is poor.
C8_BoundaryInHigherBand ==
    \A i \in 1..Len(equipment) :
        LET e == equipment[i] IN
        /\ AtFraction(e, 3, 4) => getHealthStatus(e).status = "good"
        /\ AtFraction(e, 1, 2) => getHealthStatus(e).status = "fair"
        /\ AtFraction(e, 1, 4) => getHealthStatus(e).status = "poor"

\* C8 (amended): the comparisons are strict, so a boundary value falls in the
\* lower band: exactly 75% is fair, exactly 50% is poor, exactly 25% is critical.
C8_BoundaryInLowerBand ==
    \A i \in 1..Len(equipment) :
        LET e == equipment[i] IN
        /\ AtFraction(e, 3, 4) =>
              getHealthStatus(e) = [status |-> "fair", needsMaintenance |-> FALSE]
        /\ AtFraction(e, 1, 2) =>
              getHealthStatus(e) = [status |-> "poor", needsMaintenance |-> TRUE]
        /\ AtFraction(e, 1, 4) =>
              getHealthStatus(e) = [status |-> "critical", needsMaintenance |-> TRUE]

\* an asset at exactly 50% whose last deployment was refused for availability:
\* the maintenance flag of the poor band took the last free unit
C8_Witness ==
    /\ AtFraction(equipment[1], 1, 2)
    /\ IsEquipmentTx(result, "deployment") /\ ~result.success
    /\ result.quantity = 1
    /\ equipment[1].quantity - equipment[1].inUse = 1

\* C3: stockLevel >= 0 after any sequence of purchase, use and disposal
\* transactions and updateStock calls; a use or disposal (or a decrement) of more
\* than stockLevel fails and leaves the consumable's stockLevel unchanged.
C3_NonNegative ==
    \A i \in 1..Len(consumables) : consumables[i].stockLevel >= 0

C3_OverdrawStep ==
    LET r == result'
        overdraw ==
            /\ r.itemId = "c1"
            /\ r.quantity > consumables[1].stockLevel
            /\ \/ r.kind = "consumableTx" /\ r.type \in {"use", "disposal"}
               \/ r.kind = "updateStock" /\ r.type = "decrement"
    IN  overdraw =>
            /\ ~r.success
            /\ consumables'[1].stockLevel = consumables[1].stockLevel
            /\ r.kind = "updateStock" =>
                  error' = "Insufficient stock" /\ transactions' = transactions

C3_StockNeverNegative == []C3_NonNegative /\ [][C3_OverdrawStep]_vars

\* a decrement of more than the stock on hand was refused by updateStock after
\* an earlier decrement had been recorded
C3_Witness ==
    /\ result.kind = "updateStock" /\ result.type = "decrement"
    /\ result.itemId = "c1" /\ ~result.success
    /\ result.quantity > consumables[1].stockLevel
    /\ Len(transactions) = 1 /\ transactions[1].type = "use"

\* C2: concurrent submissions through addTransaction end as some serial order
\* of them would: once every call has finished, the accepted (logged)
\* transactions can be applied one after the other, in some order, from the
\* initial entities, each being accepted, and that leaves the entities the store
\* holds.  (Rejected transactions change nothing in a serial run.)
C2_SerialOutcome ==
    microtasks = <<>> =>
        \E p \in Permutations(1..Len(transactions)) :
            LET o == SerialOutcome([i \in 1..Len(transactions) |-> transactions[p[i]]],
                                   ConcConsumables, ConcEquipment)
            IN  o.accepted /\ o.consumables = consumables /\ o.equipment = equipment

\* C9: the status of a procurement need only moves forward along
\* pending -> approved -> ordered -> received: across any store operation, a need
\* that is still identified by the same id, or by the same (itemType, itemId),
\* has a status at least as late as before.
C9_StatusStep ==
    \A i \in 1..Len(procurementNeeds) : \A j \in 1..Len(procurementNeeds') :
        LET old == procurementNeeds[i]
            new == procurementNeeds'[j]
        IN  (\/ new.id = old.id
             \/ new.itemType = old.itemType /\ new.itemId = old.itemId) =>
                Rank(new.status) >= Rank(old.status)

C9_StatusForwardOnly == [][C9_StatusStep]_vars

\* C10: a transaction recorded in the log stays in it, with the same content,
\* across every store operation.
C10_LogStep ==
    \A i \in 1..Len(transactions) :
        \E j \in 1..Len(transactions') : transactions'[j] = transactions[i]

C10_LogImmutable == [][C10_LogStep]_vars

\* ------------------------------------------------------ generated needs
\* The stores hold up to two assets and two consumables; the only operations
\* are the two that regenerate the procurement needs.
NeedQty == 3

NeedDegradations ==
    { [type |-> "cycles", maxValue |-> 40, currentValue |-> 40, degradationRate |-> 1,
       lastUpdated |-> 0],
      [type |-> "cycles", maxValue |-> 40, currentValue |-> 30, degradationRate |-> 1,
       lastUpdated |-> 0],
      [type |-> "cycles", maxValue |-> 40, currentValue |-> 20, degradationRate |-> 1,
       lastUpdated |-> 0],
      [type |-> "hours", maxValue |-> 40, currentValue |-> 40, degradationRate |-> 1,
       lastUpdated |-> 0],
      [type |-> "time", maxValue |-> 40, currentValue |-> 40, degradationRate |-> 0,
       lastUpdated |-> 0] }

NeedAssets(id, inUses) ==
    { [id |-> id, acquisitionCost |-> 10, quantity |-> NeedQty, inUse |-> u,
       degradation |-> d] : u \in inUses, d \in NeedDegradations }

NeedEquipment ==
    {<<>>} \cup { <<a>> : a \in NeedAssets("e1", 0..NeedQty) }
    \cup { <<a, b>> : a \in NeedAssets("e1", 0..NeedQty), b \in NeedAssets("e2", {2, 3}) }

\* the consumable of the worked example: stock 5, minimum 10, reorder point 20
ExampleConsumable ==
    [id |-> "c1", costPerUnit |-> 2, stockLevel |-> 5, minimumStock |-> 10,
     reorderPoint |-> 20]

NeedConsumablesOf(id, stocks) ==
    { [id |-> id, costPerUnit |-> 2, stockLevel |-> s, minimumStock |-> m,
       reorderPoint |-> r] : s \in stocks, m \in 0..1, r \in 1..MaxReorder }

NeedConsumables ==
    {<<>>, <<ExampleConsumable>>}
    \cup { <<a>> : a \in NeedConsumablesOf("c1", 0..MaxReorder + 1) }
    \cup { <<a, b>> : a \in NeedConsumablesOf("c1", 0..MaxReorder + 1),
                      b \in NeedConsumablesOf("c2", 0..1) }

InitNeeds ==
    /\ equipment \in NeedEquipment
    /\ consumables \in NeedConsumables
    /\ transactions = <<>>
    /\ procurementNeeds = <<>>
    /\ loading = FALSE
    /\ error = "null"
    /\ microtasks = <<>>
    /\ result = NoResult

\* one call of predictReplacement, as generateProcurementNeeds makes it for
\* each asset; days is <<daysUntilReplacement>>, or <<>> when the quotient is
\* not a finite number (a daily rate of 0)
PredictReplacement(e) ==
    /\ result' = [kind |-> "predictReplacement", equipment |-> e,
                  days |-> IF DailyRate(e.degradation) = 0 THEN <<>>
                           ELSE <<daysUntilReplacement(e)>>]
    /\ UNCHANGED <<equipment, consumables, transactions, procurementNeeds, loading,
                   error, microtasks>>

NextNeeds ==
    \/ GenerateProcurementNeeds
    \/ SyncInventory

SpecNeeds == InitNeeds /\ [][NextNeeds]_vars

\* the needs of the list for one item
NeedsFor(needs, itemType, itemId) ==
    SelectSeq(needs, LAMBDA n : n.itemType = itemType /\ n.itemId = itemId)

\* C11: generateProcurementNeeds emits a need for a consumable exactly when
\* stockLevel <= reorderPoint, with quantity 2*reorderPoint - stockLevel,
\* estimatedCost quantity*costPerUnit, and priority high when
\* stockLevel <= minimumStock and medium otherwise.
C11_ConsumableStep ==
    \A i \in 1..Len(consumables) :
        LET c == consumables[i]
            ns == NeedsFor(procurementNeeds', "consumable", c.id)
        IN  IF c.stockLevel <= c.reorderPoint
            THEN /\ Len(ns) = 1
                 /\ ns[1].quantity = 2 * c.reorderPoint - c.stockLevel
                 /\ ns[1].estimatedCost = ns[1].quantity * c.costPerUnit
                 /\ ns[1].priority =
                       IF c.stockLevel <= c.minimumStock THEN "high" ELSE "medium"
            ELSE ns = <<>>

C11_ConsumableNeeds == [][C11_ConsumableStep]_vars

\* the worked example: quantity 35 at priority high
C11_Witness ==
    /\ consumables = <<ExampleConsumable>>
    /\ \E i \in 1..Len(procurementNeeds) :
          /\ procurementNeeds[i].itemId = "c1"
          /\ procurementNeeds[i].quantity = 35
          /\ procurementNeeds[i].estimatedCost = 70
          /\ procurementNeeds[i].priority = "high"

\* C12: generateProcurementNeeds emits a need for an asset exactly when
\* available < 2 or daysUntilReplacement < 30, with quantity
\* max(2 - available, 0) + (1 if daysUntilReplacement < 30 else 0) and priority
\* high when available = 0 and medium otherwise, where
\* available = quantity - inUse - maintenance flag.
C12_EquipmentStep ==
    \A i \in 1..Len(equipment) :
        LET e == equipment[i]
            d == e.degradation
            flag == IF d.currentValue * 2 <= d.maxValue THEN 1 ELSE 0
            available == e.quantity - e.inUse - flag
            perDay == IF d.type = "hours" THEN 24 * d.degradationRate
                      ELSE d.degradationRate
            soon == perDay > 0 /\ d.currentValue < 30 * perDay
            ns == NeedsFor(procurementNeeds', "equipment", e.id)
        IN  IF available < 2 \/ soon
            THEN /\ Len(ns) = 1
                 /\ ns[1].quantity =
                       (IF 2 - available > 0 THEN 2 - available ELSE 0)
                       + (IF soon THEN 1 ELSE 0)
                 /\ ns[1].priority = IF available = 0 THEN "high" ELSE "medium"
            ELSE ns = <<>>

C12_EquipmentNeeds == [][C12_EquipmentStep]_vars

\* a need raised only because replacement is near, and one at priority high
C12_Witness ==
    /\ Len(equipment) = 2
    /\ equipment[1].inUse = 0 /\ equipment[1].degradation.type = "hours"
    /\ equipment[2].inUse = 3 /\ equipment[2].degradation.currentValue = 40
    /\ \E i, j \in 1..Len(procurementNeeds) :
          /\ procurementNeeds[i].itemId = "e1" /\ procurementNeeds[i].quantity = 1
          /\ procurementNeeds[i].priority = "medium"
          /\ procurementNeeds[j].itemId = "e2" /\ procurementNeeds[j].priority = "high"

\* position of a need's item in the order of generation: assets in input
\* order, then consumables in input order
GenerationIndex(n, eqs, cons) ==
    IF n.itemType = "equipment"
    THEN CHOOSE i \in 1..Len(eqs) : eqs[i].id = n.itemId
    ELSE Len(eqs) + (CHOOSE i \in 1..Len(cons) : cons[i].id = n.itemId)

PriorityOrder(p) == CASE p = "high" -> 0 [] p = "medium" -> 1 [] p = "low" -> 2

\* C13: the generated list is ordered by priority, and needs of equal
\* priority keep the order in which they were generated.
C13_SortedStep ==
    \A i, j \in 1..Len(procurementNeeds') :
        i < j =>
            LET a == procurementNeeds'[i]
                b == procurementNeeds'[j]
            IN  /\ PriorityOrder(a.priority) <= PriorityOrder(b.priority)
                /\ a.priority = b.priority =>
                      GenerationIndex(a, equipment, consumables)
                          < GenerationIndex(b, equipment, consumables)

C13_StableSort == [][C13_SortedStep]_vars

\* the sort moved a high consumable need ahead of a medium asset need while two
\* medium needs kept their order
C13_Witness ==
    /\ Len(procurementNeeds) = 4
    /\ procurementNeeds[1].itemType = "consumable" /\ procurementNeeds[1].priority = "high"
    /\ procurementNeeds[2].itemId = "e1" /\ procurementNeeds[2].priority = "medium"
    /\ procurementNeeds[3].itemId = "e2" /\ procurementNeeds[3].priority = "medium"
    /\ procurementNeeds[4].itemType = "consumable"

\* ---------------------------------------------------- the budgeted plan
\* generateProcurementPlan(equipment, consumables, budget) of utils/helpers,
\* on the assets and consumables the stores hold.
MaxBudget == 8

\* predictMaintenanceNeeds(eq).priority === 'high', with the default usage
\* pattern: floor((currentValue - maxValue/4) / (rate * perDay)) <= 7. A rate
\* of 0 gives -Infinity (high) below the threshold and Infinity or NaN otherwise.
MaintenanceHigh(e) ==
    LET d == e.degradation
        perDay == CASE d.type = "cycles" -> 1 [] d.type = "hours" -> 8 [] d.type = "time" -> 1
        num == 4 * d.currentValue - d.maxValue
        den == 4 * d.degradationRate * perDay
    IN  IF den = 0 THEN num < 0 ELSE num < 8 * den

PlanEquipmentCandidate(e) ==
    [itemType |-> "equipment", itemId |-> e.id, quantity |-> 1,
     estimatedCost |-> e.acquisitionCost, priority |-> "high"]

PlanConsumableWanted(c) == c.stockLevel <= c.minimumStock

PlanConsumableCandidate(c) ==
    LET orderQuantity == Max2(c.reorderPoint - c.stockLevel, (3 * c.minimumStock + 1) \div 2)
    IN  [itemType |-> "consumable", itemId |-> c.id, quantity |-> orderQuantity,
         estimatedCost |-> orderQuantity * c.costPerUnit,
         priority |-> IF c.stockLevel = 0 THEN "high" ELSE "medium"]

\* sign of a.stockLevel / a.minimumStock - b.stockLevel / b.minimumStock for
\* positive minimum stocks
RatioCompare(a, b) == a.stockLevel * b.minimumStock - b.stockLevel * a.minimumStock

\* the arrays .sort(...) can return: the stable order when every ratio is a
\* number; with a minimumStock of 0 the ratio is NaN, the comparator is not
\* consistent and the order is left to the engine
SortByStockRatio(cons) ==
    LET n == Len(cons)
        stable(p) == \A i, j \in 1..n : i < j =>
                        \/ RatioCompare(cons[p[i]], cons[p[j]]) < 0
                        \/ RatioCompare(cons[p[i]], cons[p[j]]) = 0 /\ p[i] < p[j]
        orders == IF \E i \in 1..n : cons[i].minimumStock = 0 THEN Permutations(1..n)
                  ELSE { p \in Permutations(1..n) : stable(p) }
    IN  { [i \in 1..n |-> cons[p[i]]] : p \in orders }

\* the forEach bodies: push the candidate when the remaining budget covers it
RECURSIVE FundKeepingBudget(_, _)
FundKeepingBudget(cands, remainingBudget) ==
    IF cands = <<>> THEN <<>>
    ELSE IF remainingBudget >= Head(cands).estimatedCost
         THEN <<Head(cands)>> \o FundKeepingBudget(Tail(cands), remainingBudget)
         ELSE FundKeepingBudget(Tail(cands), remainingBudget)

RECURSIVE Fund(_, _)
Fund(cands, remainingBudget) ==
    IF cands = <<>> THEN <<>>
    ELSE IF remainingBudget >= Head(cands).estimatedCost
         THEN <<Head(cands)>>
              \o Fund(Tail(cands), remainingBudget - Head(cands).estimatedCost)
         ELSE Fund(Tail(cands), remainingBudget)

\* the candidates in the order the plan considers them, for one outcome of
\* the sort
PlanCandidates(eqs, sorted) ==
    LET high == SelectSeq(eqs, MaintenanceHigh)
    IN  [i \in 1..Len(high) |-> PlanEquipmentCandidate(high[i])]
        \o [i \in 1..Len(sorted) |-> PlanConsumableCandidate(sorted[i])]

generateProcurementPlan(cands, budget) ==
    LET funded == Fund(cands, budget)
    IN  [i \in 1..Len(funded) |->
            [id |-> UuidPool[i], itemType |-> funded[i].itemType,
             itemId |-> funded[i].itemId, quantity |-> funded[i].quantity,
             estimatedCost |-> funded[i].estimatedCost, priority |-> funded[i].priority,
             status |-> "pending"]]

\* one call of generateProcurementPlan; result keeps the call's budget, the
\* candidates in the order they were considered, and the returned needs
GenerateProcurementPlan(budget) ==
    \E sorted \in SortByStockRatio(SelectSeq(consumables, PlanConsumableWanted)) :
        LET cands == PlanCandidates(equipment, sorted)
        IN  /\ result' = [kind |-> "plan", budget |-> budget, candidates |-> cands,
                          needs |-> generateProcurementPlan(cands, budget)]
            /\ UNCHANGED <<equipment, consumables, transactions, procurementNeeds,
                           loading, error, microtasks>>

PlanAssets(id, costs) ==
    { [id |-> id, acquisitionCost |-> k, quantity |-> 1, inUse |-> 0,
       degradation |-> [type |-> t, maxValue |-> 40, currentValue |-> v,
                        degradationRate |-> 1, lastUpdated |-> 0]] :
        k \in costs, t \in {"cycles", "hours"}, v \in {10, 40} }

PlanEquipment ==
    {<<>>} \cup { <<a>> : a \in PlanAssets("e1", {3, 5}) }
    \cup { <<a, b>> : a \in PlanAssets("e1", {3, 5}), b \in PlanAssets("e2", {2}) }

PlanConsumablesOf(id, cost) ==
    { [id |-> id, costPerUnit |-> cost, stockLevel |-> s, minimumStock |-> m,
       reorderPoint |-> r] : s \in 0..2, m \in 0..2, r \in {1, 3} }

PlanConsumables ==
    {<<>>} \cup { <<a>> : a \in PlanConsumablesOf("c1", 2) }
    \cup { <<a, b>> : a \in PlanConsumablesOf("c1", 2), b \in PlanConsumablesOf("c2", 1) }

InitPlan ==
    /\ equipment \in PlanEquipment
    /\ consumables \in PlanConsumables
    /\ transactions = <<>>
    /\ procurementNeeds = <<>>
    /\ loading = FALSE
    /\ error = "null"
    /\ microtasks = <<>>
    /\ result = NoResult

NextPlan == \E budget \in 0..MaxBudget : GenerateProcurementPlan(budget)

SpecPlan == InitPlan /\ [][NextPlan]_vars

RECURSIVE SumCost(_)
SumCost(needs) ==
    IF needs = <<>> THEN 0 ELSE Head(needs).estimatedCost + SumCost(Tail(needs))

\* the returned needs among the first k candidates
FundedAmong(r, k) ==
    SelectSeq(r.needs, LAMBDA n :
        \E j \in 1..k : r.candidates[j].itemType = n.itemType
                        /\ r.candidates[j].itemId = n.itemId)

IsFunded(r, k) ==
    \E i \in 1..Len(r.needs) : r.needs[i].itemType = r.candidates[k].itemType
                               /\ r.needs[i].itemId = r.candidates[k].itemId

\* C14: the plan never overspends: the costs of the returned needs sum to at
\* most the budget; a candidate is in the plan exactly when its cost was at
\* most the budget left by the needs accepted before it, so a candidate that
\* is too expensive is skipped whole and later, cheaper ones are still accepted.
C14_WithinBudget ==
    result.kind = "plan" =>
        /\ SumCost(result.needs) <= result.budget
        /\ \A k \in 1..Len(result.candidates) :
              IsFunded(result, k) <=>
                  result.candidates[k].estimatedCost
                      <= result.budget - SumCost(FundedAmong(result, k - 1))
        /\ \A i \in 1..Len(result.needs) :
              \E k \in 1..Len(result.candidates) :
                  /\ result.candidates[k].itemType = result.needs[i].itemType
                  /\ result.candidates[k].itemId = result.needs[i].itemId
                  /\ result.candidates[k].estimatedCost = result.needs[i].estimatedCost

\* an asset too expensive for the budget is skipped and two later, cheaper
\* orders are accepted, the second using up the budget
C14_Witness ==
    /\ result.kind = "plan"
    /\ Len(result.candidates) = 3
    /\ result.candidates[1].estimatedCost > result.budget
    /\ Len(result.needs) = 2
    /\ SumCost(result.needs) = result.budget

\* C15: with a budget that funds every candidate, the plan holds an order for
\* every consumable whose stock level is below its reorder point.
C15_OrdersBelowReorderPoint ==
    (/\ result.kind = "plan"
     /\ result.budget = MaxBudget
     /\ result.budget >= SumCost(result.candidates)) =>
        \A i \in 1..Len(consumables) :
            consumables[i].stockLevel < consumables[i].reorderPoint =>
                \E j \in 1..Len(result.needs) :
                    /\ result.needs[j].itemType = "consumable"
                    /\ result.needs[j].itemId = consumables[i].id

\* ------------------------------------------------- combination validators
\* EquipmentManagerService.validateCombination reads the assets registered
\* with the manager (a Map keyed by id); validateCombinationAvailability takes
\* the assets as an array. Both are applied to the assets of the equipment
\* store. A message is <<text, item id>>. degradationTracker.getDegradation(id)
\* is called by validateCombination but has no body in the sources: it is
\* taken to return the degradation record of the asset registered under id.
MaxLineQty == 2

getDegradation(eqs, id) == FindById(eqs, id)[1].degradation

\* the loop of validateCombination from line item k on
RECURSIVE ValidateFrom(_, _, _)
ValidateFrom(items, eqs, k) ==
    IF k > Len(items) THEN [valid |-> TRUE, message |-> <<>>]
    ELSE LET found == FindById(eqs, items[k].id)
         IN  IF found = <<>>
             THEN [valid |-> FALSE, message |-> <<<<"not found", items[k].id>>>>]
             ELSE IF found[1].quantity - found[1].inUse < items[k].quantity
             THEN [valid |-> FALSE,
                   message |-> <<<<"Insufficient quantity", items[k].id>>>>]
             ELSE IF getDegradation(eqs, items[k].id).currentValue < 25
             THEN [valid |-> FALSE,
                   message |-> <<<<"requires maintenance", items[k].id>>>>]
             ELSE ValidateFrom(items, eqs, k + 1)

validateCombination(items, eqs) == ValidateFrom(items, eqs, 1)

\* what validateCombinationAvailability pushes for one line item
MissingEquipment(item, eqs) ==
    LET found == FindById(eqs, item.id)
    IN  IF found = <<>>
        THEN <<[id |-> item.id, required |-> item.quantity, available |-> 0]>>
        ELSE IF getInventoryStatus(found[1]).available < item.quantity
        THEN <<[id |-> item.id, required |-> item.quantity,
                available |-> getInventoryStatus(found[1]).available]>>
        ELSE <<>>

RECURSIVE MissingFrom(_, _, _)
MissingFrom(items, eqs, k) ==
    IF k > Len(items) THEN <<>>
    ELSE MissingEquipment(items[k], eqs) \o MissingFrom(items, eqs, k + 1)

validateCombinationAvailability(items, eqs) ==
    LET missingEquipment == MissingFrom(items, eqs, 1)
    IN  [available |-> missingEquipment = <<>>, missingEquipment |-> missingEquipment]

\* one call of validateCombination on the combination's line items
ValidateCombination(items) ==
    /\ result' = [kind |-> "validateCombination", items |-> items,
                  outcome |-> validateCombination(items, equipment)]
    /\ UNCHANGED <<equipment, consumables, transactions, procurementNeeds, loading,
                   error, microtasks>>

\* one call of validateCombinationAvailability
ValidateCombinationAvailability(items) ==
    /\ result' = [kind |-> "validateCombinationAvailability", items |-> items,
                  outcome |-> validateCombinationAvailability(items, equipment)]
    /\ UNCHANGED <<equipment, consumables, transactions, procurementNeeds, loading,
                   error, microtasks>>

CombinationDegradations ==
    { [type |-> "cycles", maxValue |-> mx, currentValue |-> v, degradationRate |-> 1,
       lastUpdated |-> 0] :
        mx \in {40, 200}, v \in {10, 20, 30, 40} }

CombinationAssets(id, inUses, degradations) ==
    { [id |-> id, acquisitionCost |-> 10, quantity |-> MaxLineQty, inUse |-> u,
       degradation |-> d] : u \in inUses, d \in degradations }

CombinationEquipment ==
    { <<a>> : a \in CombinationAssets("e1", 0..1, CombinationDegradations) }
    \cup { <<a, b>> : a \in CombinationAssets("e1", 0..1, CombinationDegradations),
                      b \in CombinationAssets("e2", {0},
                               { d \in CombinationDegradations : d.maxValue = 40 }) }

LineItems == [id : {"e1", "e2", "e9"}, quantity : 1..MaxLineQty]

Combinations ==
    {<<>>} \cup { <<a>> : a \in LineItems } \cup { <<a, b>> : a, b \in LineItems }

InitCombination ==
    /\ equipment \in CombinationEquipment
    /\ consumables = <<>>
    /\ transactions = <<>>
    /\ procurementNeeds = <<>>
    /\ loading = FALSE
    /\ error = "null"
    /\ microtasks = <<>>
    /\ result = NoResult

NextCombination ==
    \/ \E items \in Combinations : ValidateCombination(items)
    \/ \E items \in Combinations : ValidateCombinationAvailability(items)

SpecCombination == InitCombination /\ [][NextCombination]_vars

\* the line items whose asset is registered
Resolved(items, eqs) == { k \in 1..Len(items) : FindById(eqs, items[k].id) # <<>> }

BelowMinHealth(items, eqs, k) ==
    LET d == FindById(eqs, items[k].id)[1].degradation
    IN  d.currentValue * 4 < d.maxValue

\* C16: validateCombination reports the combination invalid when a referenced
\* asset has currentValue/maxValue below 0.25, does not reject an asset for
\* health when its fraction is at least 0.25 whatever its maxValue, and the
\* message names the first failing line item.
C16_HealthFraction ==
    result.kind = "validateCombination" =>
        LET items == result.items
            out == result.outcome
            known == Resolved(items, equipment)
        IN  /\ (\E k \in known : BelowMinHealth(items, equipment, k)) => ~out.valid
            /\ (~out.valid /\ out.message[1][1] = "requires maintenance") =>
                  \E k \in known :
                      /\ items[k].id = out.message[1][2]
                      /\ BelowMinHealth(items, equipment, k)
                      /\ \A j \in known : j < k => ~BelowMinHealth(items, equipment, j)

\* C17: whenever validateCombination reports valid, for the same line items
\* and the same assets validateCombinationAvailability reports no missing item.
C17_UsableImpliesAvailable ==
    (result.kind = "validateCombination" /\ result.outcome.valid) =>
        validateCombinationAvailability(result.items, equipment).missingEquipment = <<>>

\* --------------------------------------------------- CostCalculatorService
\* Costs are JavaScript numbers; here every amount is an exact integer number
\* of 1/Scale currency units, with Scale chosen so that the factors 0.1, 0.02,
\* 1/12, 1.2, 1.5 and currentValue/maxValue (assets of this section share the
\* maxValue CostMaxValue) all stay integral.
CostMaxValue == 4

MaxMonths == 4

Scale == 1200 * CostMaxValue * CostMaxValue

PERSONNEL_COST_PER_MONTH == 5000

CONSUMABLE_BASE_COST == 100

\* calculateMaintenanceCosts(equipment).monthly:
\* acquisitionCost * 0.02 * (2 - currentValue/maxValue)
calculateMaintenanceCosts(e) ==
    (e.acquisitionCost * 2 * (2 * e.degradation.maxValue - e.degradation.currentValue)
        * Scale) \div (100 * e.degradation.maxValue)

\* ten times the health factor of calculateOperationalCost
HealthFactor10(status) ==
    CASE status = "good" -> 10 [] status = "fair" -> 12 [] status = "poor" -> 15
      [] status = "critical" -> 20

\* acquisitionCost * 0.1 * healthFactor
calculateOperationalCost(e) ==
    (e.acquisitionCost * HealthFactor10(getHealthStatus(e).status) * Scale) \div 100

calculatePersonnelCost(e) == e.personnelRequired * PERSONNEL_COST_PER_MONTH * Scale

RECURSIVE calculateConsumablesCostFrom(_, _)
calculateConsumablesCostFrom(links, k) ==
    IF k > Len(links) THEN 0
    ELSE links[k].unitsPerUse * CONSUMABLE_BASE_COST * Scale
         + calculateConsumablesCostFrom(links, k + 1)

calculateConsumablesCost(e) == calculateConsumablesCostFrom(e.consumables, 1)

CalculateEquipmentCostsWithoutConsumables(e) ==
    [acquisition |-> e.acquisitionCost * Scale,
     operational |-> calculateOperationalCost(e),
     maintenance |-> calculateMaintenanceCosts(e),
     personnel |-> calculatePersonnelCost(e),
     consumables |-> calculateConsumablesCost(e),
     total |-> e.acquisitionCost * Scale + calculateOperationalCost(e)
               + calculateMaintenanceCosts(e) + calculatePersonnelCost(e)]

calculateEquipmentCosts(e) ==
    [acquisition |-> e.acquisitionCost * Scale,
     operational |-> calculateOperationalCost(e),
     maintenance |-> calculateMaintenanceCosts(e),
     personnel |-> calculatePersonnelCost(e),
     consumables |-> calculateConsumablesCost(e),
     total |-> e.acquisitionCost * Scale + calculateOperationalCost(e)
               + calculateMaintenanceCosts(e) + calculatePersonnelCost(e)
               + calculateConsumablesCost(e)]

ZeroCosts ==
    [acquisition |-> 0, operational |-> 0, maintenance |-> 0, personnel |-> 0,
     consumables |-> 0, total |-> 0]

\* aggregateCosts, over costs[k..]
RECURSIVE AggregateFrom(_, _)
AggregateFrom(costs, k) ==
    IF k > Len(costs) THEN ZeroCosts
    ELSE LET rest == AggregateFrom(costs, k + 1)
         IN  [acquisition |-> costs[k].acquisition + rest.acquisition,
              operational |-> costs[k].operational + rest.operational,
              maintenance |-> costs[k].maintenance + rest.maintenance,
              personnel |-> costs[k].personnel + rest.personnel,
              consumables |-> costs[k].consumables + rest.consumables,
              total |-> costs[k].total + rest.total]

aggregateCosts(costs) == AggregateFrom(costs, 1)

\* calculateCombinationCosts: the itemized costs of one line item, with the
\* total multiplied by the quantity
ItemizedCosts(item, eqs) ==
    LET costs == calculateEquipmentCosts(FindById(eqs, item.id)[1])
    IN  [acquisition |-> costs.acquisition * item.quantity,
         operational |-> costs.operational * item.quantity,
         maintenance |-> costs.maintenance * item.quantity,
         personnel |-> costs.personnel * item.quantity,
         consumables |-> costs.consumables * item.quantity,
         total |-> costs.total * item.quantity]

\* calculateCombinationCosts(combination, equipment): `thrown` when the map
\* callback throws Error(`Equipment ... not found`), which leaves the method
\* as an exception; otherwise the breakdown it returns
calculateCombinationCosts(items, eqs) ==
    IF \E k \in 1..Len(items) : FindById(eqs, items[k].id) = <<>>
    THEN [thrown |-> TRUE, costs |-> <<>>]
    ELSE [thrown |-> FALSE,
          costs |-> <<aggregateCosts([k \in 1..Len(items) |-> ItemizedCosts(items[k], eqs)])>>]

\* one asset's share of the costs of month `index` in projectCosts
MonthlyShare(e, index) ==
    LET costs == calculateEquipmentCosts(e)
        degradation == calculateDegradation(e.degradation,
                          [cycles |-> 0, hours |-> 0, days |-> 30 * index])
        acquisition == costs.acquisition \div 12
        operational == (costs.operational * degradation.currentValue)
                          \div degradation.maxValue
        maintenance == (costs.maintenance
                           * (2 * degradation.maxValue - degradation.currentValue))
                          \div degradation.maxValue
    IN  [acquisition |-> acquisition, operational |-> operational,
         maintenance |-> maintenance, personnel |-> costs.personnel,
         consumables |-> costs.consumables, total |-> 0]

\* the costs of month `index` (0-based): the reduce over the assets with its
\* placeholder total, then total = the sum of the object's values less that
\* placeholder
MonthlyCosts(eqs, index) ==
    LET monthlyCosts == aggregateCosts([k \in 1..Len(eqs) |-> MonthlyShare(eqs[k], index)])
    IN  [monthlyCosts EXCEPT !.total =
            (monthlyCosts.acquisition + monthlyCosts.operational
             + monthlyCosts.maintenance + monthlyCosts.personnel
             + monthlyCosts.consumables + monthlyCosts.total) - monthlyCosts.total]

Min2(a, b) == IF a <= b THEN a ELSE b

projectCosts(eqs, months) ==
    LET monthly == [i \in 1..months |-> MonthlyCosts(eqs, i - 1)]
        quarters == (months + 2) \div 3
    IN  [monthly |-> monthly,
         quarterly |->
            [q \in 1..quarters |->
                aggregateCosts(SubSeq(monthly, 3 * (q - 1) + 1, Min2(3 * q, months)))],
         yearly |-> aggregateCosts(monthly)]

CalculateEquipmentCosts(e) ==
    /\ result' = [kind |-> "calculateEquipmentCosts", equipment |-> e,
                  costs |-> calculateEquipmentCosts(e)]
    /\ UNCHANGED <<equipment, consumables, transactions, procurementNeeds, loading,
                   error, microtasks>>

CalculateCombinationCosts(items) ==
    /\ result' = [kind |-> "calculateCombinationCosts", items |-> items,
                  outcome |-> calculateCombinationCosts(items, equipment)]
    /\ UNCHANGED <<equipment, consumables, transactions, procurementNeeds, loading,
                   error, microtasks>>

ProjectCosts(months) ==
    /\ result' = [kind |-> "projectCosts", months |-> months,
                  projected |-> projectCosts(equipment, months)]
    /\ UNCHANGED <<equipment, consumables, transactions, procurementNeeds, loading,
                   error, microtasks>>

ConsumableLinks ==
    { <<>>, <<[id |-> "c1", unitsPerUse |-> 2]>>,
      <<[id |-> "c1", unitsPerUse |-> 1], [id |-> "c9", unitsPerUse |-> 1]>> }

CostAssets(id, cost, types, links) ==
    { [id |-> id, acquisitionCost |-> cost, quantity |-> 2, inUse |-> 0,
       personnelRequired |-> p, consumables |-> l,
       degradation |-> [type |-> t, maxValue |-> CostMaxValue, currentValue |-> v,
                        degradationRate |-> 1, lastUpdated |-> 0]] :
        p \in 0..1, l \in links, t \in types, v \in 0..CostMaxValue }

CostEquipment ==
    { <<a>> : a \in CostAssets("e1", 1000, DegradationTypes, ConsumableLinks) }
    \cup { <<a, b>> : a \in CostAssets("e1", 1000, DegradationTypes, ConsumableLinks),
                      b \in CostAssets("e2", 120, {"time"}, {<<>>}) }

\* the consumables of the inventory store, from which a unit cost can be looked up
CostConsumables ==
    <<[id |-> "c1", costPerUnit |-> 2, stockLevel |-> 3, minimumStock |-> 1,
       reorderPoint |-> 2]>>

InitCost ==
    /\ equipment \in CostEquipment
    /\ consumables = CostConsumables
    /\ transactions = <<>>
    /\ procurementNeeds = <<>>
    /\ loading = FALSE
    /\ error = "null"
    /\ microtasks = <<>>
    /\ result = NoResult

NextCost ==
    \/ \E k \in 1..Len(equipment) : CalculateEquipmentCosts(equipment[k])
    \/ \E items \in Combinations : CalculateCombinationCosts(items)
    \/ \E months \in 0..MaxMonths : ProjectCosts(months)

SpecCost == InitCost /\ [][NextCost]_vars

\* total is the sum of the five components
TotalIsSum(b) ==
    b.total = b.acquisition + b.operational + b.maintenance + b.personnel + b.consumables

\* C18: in every cost breakdown produced - calculateEquipmentCosts,
\* calculateCombinationCosts, and each monthly, quarterly and yearly entry of
\* projectCosts - total equals acquisition + operational + maintenance +
\* personnel + consumables.
C18_TotalIsSum ==
    /\ result.kind = "calculateEquipmentCosts" => TotalIsSum(result.costs)
    /\ (result.kind = "calculateCombinationCosts" /\ ~result.outcome.thrown) =>
          TotalIsSum(result.outcome.costs[1])
    /\ result.kind = "projectCosts" =>
          /\ \A i \in 1..Len(result.projected.monthly) :
                TotalIsSum(result.projected.monthly[i])
          /\ \A q \in 1..Len(result.projected.quarterly) :
                TotalIsSum(result.projected.quarterly[q])
          /\ TotalIsSum(result.projected.yearly)

\* a projection over four months of two assets: two quarters, the second of
\* one month, with costs that differ between the first two months
C18_Witness ==
    /\ result.kind = "projectCosts"
    /\ Len(equipment) = 2
    /\ Len(result.projected.monthly) = 4
    /\ Len(result.projected.quarterly) = 2
    /\ result.projected.quarterly[2] = result.projected.monthly[4]
    /\ result.projected.monthly[1].total # result.projected.monthly[2].total
    /\ result.projected.yearly.consumables > 0

\* the unit cost of a link's consumable: its own costPerUnit when the
\* consumable is known, the base rate otherwise
UnitCost(link, cons) ==
    IF FindById(cons, link.id) = <<>> THEN CONSUMABLE_BASE_COST
    ELSE FindById(cons, link.id)[1].costPerUnit

RECURSIVE LinkedCostFrom(_, _, _)
LinkedCostFrom(links, cons, k) ==
    IF k > Len(links) THEN 0
    ELSE links[k].unitsPerUse * UnitCost(links[k], cons) + LinkedCostFrom(links, cons, k + 1)

\* C19: the consumables component of calculateEquipmentCosts is the sum over
\* the asset's consumable links of unitsPerUse times the consumable's own unit
\* cost; the base rate 100 is used only for a link whose consumable is unknown.
C19_ConsumablesAtUnitCost ==
    result.kind = "calculateEquipmentCosts" =>
        result.costs.consumables
            = LinkedCostFrom(result.equipment.consumables, consumables, 1) * Scale

\* C20: calculateCombinationCosts with a line item whose asset is absent
\* returns no breakdown, and the failure comes back to the caller as an error
\* value, not as an exception leaving the method.
C20_FailureIsErrorValue ==
    (/\ result.kind = "calculateCombinationCosts"
     /\ \E k \in 1..Len(result.items) : FindById(equipment, result.items[k].id) = <<>>) =>
        /\ result.outcome.costs = <<>>
        /\ ~result.outcome.thrown

\* the asset as it stands after `days` days of simulated usage
AfterDays(e, days) ==
    [e EXCEPT !.degradation.currentValue =
        IF e.degradation.type = "time"
        THEN (IF @ - days * e.degradation.degradationRate > 0
              THEN @ - days * e.degradation.degradationRate ELSE 0)
        ELSE @]

\* acquisitionCost * 0.1 * healthMultiplier of the assets after `days` days,
\* over eqs[k..]
RECURSIVE OperationalByHealthFrom(_, _, _)
OperationalByHealthFrom(eqs, days, k) ==
    IF k > Len(eqs) THEN 0
    ELSE (eqs[k].acquisitionCost
            * HealthFactor10(getHealthStatus(AfterDays(eqs[k], days)).status) * Scale)
            \div 100
         + OperationalByHealthFrom(eqs, days, k + 1)

RECURSIVE AcquisitionShareFrom(_, _)
AcquisitionShareFrom(eqs, k) ==
    IF k > Len(eqs) THEN 0
    ELSE (eqs[k].acquisitionCost * Scale) \div 12 + AcquisitionShareFrom(eqs, k + 1)

\* C21: for every period index i of projectCosts the period's operational cost
\* is acquisitionCost * 0.1 * healthMultiplier on the asset's degradation after
\* 30*i days, so it is never lower than that of an earlier period; the
\* period's acquisition share is acquisitionCost / 12.
C21_OperationalByHealth ==
    result.kind = "projectCosts" =>
        LET monthly == result.projected.monthly
        IN  /\ \A i \in 1..Len(monthly) :
                  /\ monthly[i].operational
                        = OperationalByHealthFrom(equipment, 30 * (i - 1), 1)
                  /\ monthly[i].acquisition = AcquisitionShareFrom(equipment, 1)
            /\ \A i, j \in 1..Len(monthly) :
                  i < j => monthly[i].operational <= monthly[j].operational

\* predictReplacement on the assets of the equipment store
InitReplacement ==
    /\ equipment \in NeedEquipment
    /\ consumables = <<>>
    /\ transactions = <<>>
    /\ procurementNeeds = <<>>
    /\ loading = FALSE
    /\ error = "null"
    /\ microtasks = <<>>
    /\ result = NoResult

NextReplacement == \E k \in 1..Len(equipment) : PredictReplacement(equipment[k])

SpecReplacement == InitReplacement /\ [][NextReplacement]_vars

\* C22: daysUntilReplacement equals
\* floor((currentValue - threshold) / dailyRate) with threshold = 0.25 * maxValue
\* and dailyRate derived from the degradation type, for every asset with
\* dailyRate > 0.
C22_DaysAboveThreshold ==
    (result.kind = "predictReplacement" /\ result.days # <<>>) =>
        LET d == result.equipment.degradation
            dailyRate == CASE d.type = "cycles" -> d.degradationRate
                           [] d.type = "hours" -> d.degradationRate * 24
                           [] d.type = "time" -> d.degradationRate
        IN  result.days[1] = (4 * d.currentValue - d.maxValue) \div (4 * dailyRate)

\* C23: processConsumableTransaction emits a reorder signal exactly after a
\* successful use or disposal that leaves stockLevel <= reorderPoint (none for
\* a purchase or a failed transaction), and no stock-changing store operation
\* creates or replaces procurement needs.
C23_SignalOnDecrease ==
    result.kind = "consumableTx" =>
        (result.reorder <=>
            /\ result.success
            /\ result.type \in {"use", "disposal"}
            /\ \E i \in 1..Len(consumables) :
                  /\ consumables[i].id = result.itemId
                  /\ consumables[i].stockLevel <= consumables[i].reorderPoint)

C23_ReorderSignalOnly ==
    []C23_SignalOnDecrease /\ [][procurementNeeds' = procurementNeeds]_vars

\* ------------------------------------------------------- record intake
\* The operations through which records enter the two stores, called with
\* records as a form or an import file can supply them.
MaxEquipment == 2

UpdateConsumable(updated) ==
    /\ consumables' = updateConsumable(consumables, updated)
    /\ error' = "null"
    /\ UNCHANGED <<equipment, transactions, procurementNeeds, loading, microtasks, result>>

\* importConsumables(list): append the list, then generateProcurementNeeds()
ImportConsumables(list) ==
    /\ Len(consumables) + Len(list) <= MaxConsumables
    /\ consumables' = consumables \o list
    /\ procurementNeeds' = generateProcurementNeeds(equipment, consumables \o list, FreshIds)
    /\ error' = "null"
    /\ UNCHANGED <<equipment, transactions, loading, microtasks, result>>

AddEquipment(e) ==
    /\ Len(equipment) < MaxEquipment
    /\ equipment' = Append(equipment, e)
    /\ UNCHANGED <<consumables, transactions, procurementNeeds, loading, error,
                   microtasks, result>>

UpdateEquipment(updated) ==
    /\ equipment' = updateEquipment(equipment, updated)
    /\ UNCHANGED <<consumables, transactions, procurementNeeds, loading, error,
                   microtasks, result>>

ImportEquipment(list) ==
    /\ Len(equipment) + Len(list) <= MaxEquipment
    /\ equipment' = equipment \o list
    /\ UNCHANGED <<consumables, transactions, procurementNeeds, loading, error,
                   microtasks, result>>

\* a record that passes the validators and one that does not
IntakeConsumables ==
    { [id |-> "c1", costPerUnit |-> 2, stockLevel |-> s, minimumStock |-> 1,
       reorderPoint |-> r] : s \in {-1, 1}, r \in 0..1 }

IntakeEquipment ==
    { [id |-> "e1", acquisitionCost |-> 10, quantity |-> 1, inUse |-> u,
       degradation |-> [type |-> "cycles", maxValue |-> 40, currentValue |-> 40,
                        degradationRate |-> 1, lastUpdated |-> 0]] :
        u \in {-1, 0, 2} }

InitIntake ==
    /\ equipment = <<>>
    /\ consumables = <<>>
    /\ transactions = <<>>
    /\ procurementNeeds = <<>>
    /\ loading = FALSE
    /\ error = "null"
    /\ microtasks = <<>>
    /\ result = NoResult

NextIntake ==
    \/ \E c \in IntakeConsumables : AddConsumable(c)
    \/ \E c \in IntakeConsumables : UpdateConsumable(c)
    \/ \E c \in IntakeConsumables : ImportConsumables(<<c>>)
    \/ \E e \in IntakeEquipment : AddEquipment(e)
    \/ \E e \in IntakeEquipment : UpdateEquipment(e)
    \/ \E e \in IntakeEquipment : ImportEquipment(<<e>>)

SpecIntake == InitIntake /\ [][NextIntake]_vars

\* C24: in every reachable store state each consumable has
\* reorderPoint >= minimumStock and stockLevel >= 0, and each asset has
\* 0 <= inUse <= quantity, because no record enters the stores unvalidated.
C24_StoredRecordsValid ==
    /\ \A i \in 1..Len(consumables) :
          /\ consumables[i].reorderPoint >= consumables[i].minimumStock
          /\ consumables[i].stockLevel >= 0
    /\ \A i \in 1..Len(equipment) :
          0 <= equipment[i].inUse /\ equipment[i].inUse <= equipment[i].quantity

\* ------------------------------------------------- calculateDegradation
\* calculateDegradation called on an asset of the equipment store with usage
\* on any combination of axes (an axis left out of the usage object is 0 here)
AllUsages == [cycles : 0..MaxUsage, hours : 0..MaxUsage, days : 0..MaxUsage]

CalculateDegradation(e, usage) ==
    /\ result' = [kind |-> "calculateDegradation", equipment |-> e, usage |-> usage,
                  degradation |-> calculateDegradation(e.degradation, usage)]
    /\ UNCHANGED <<equipment, consumables, transactions, procurementNeeds, loading,
                   error, microtasks>>

InitDegradation ==
    /\ \E a \in {x \in InitAssets : x.quantity = 1 /\ x.inUse = 0} : equipment = <<a>>
    /\ consumables = <<>>
    /\ transactions = <<>>
    /\ procurementNeeds = <<>>
    /\ loading = FALSE
    /\ error = "null"
    /\ microtasks = <<>>
    /\ result = NoResult

NextDegradation ==
    \E k \in 1..Len(equipment), usage \in AllUsages :
        CalculateDegradation(equipment[k], usage)

SpecDegradation == InitDegradation /\ [][NextDegradation]_vars

\* C25: calculateDegradation returns currentValue
\* max(0, currentValue - usage[axis] * degradationRate) for the axis of the
\* state's type, ignores usage on the other axes, leaves every field other than
\* currentValue and lastUpdated unchanged, and with zero usage returns the
\* input except for lastUpdated.
C25_ApplyUsage ==
    result.kind = "calculateDegradation" =>
        LET d == result.equipment.degradation
            out == result.degradation
            u == CASE d.type = "cycles" -> result.usage.cycles
                   [] d.type = "hours" -> result.usage.hours
                   [] d.type = "time" -> result.usage.days
            spent == d.currentValue - u * d.degradationRate
        IN  /\ out.currentValue = IF spent > 0 THEN spent ELSE 0
            /\ out.type = d.type
            /\ out.maxValue = d.maxValue
            /\ out.degradationRate = d.degradationRate
            /\ DOMAIN out = DOMAIN d
            /\ u = 0 => out = [d EXCEPT !.lastUpdated = out.lastUpdated]

\* over-usage on the state's own axis, with usage on another axis as well,
\* stops at 0
C25_Witness ==
    /\ result.kind = "calculateDegradation"
    /\ result.equipment.degradation.type = "hours"
    /\ result.usage.hours * result.equipment.degradation.degradationRate
          > result.equipment.degradation.currentValue
    /\ result.equipment.degradation.currentValue > 0
    /\ result.usage.cycles > 0
    /\ result.degradation.currentValue = 0

\* C26: the available count quantity - inUse - maintenance flag of an asset
\* is never negative: no transaction or degradation step takes an asset whose
\* available count is >= 0 to one whose available count is negative.
C26_AvailableStep ==
    \A i \in 1..Len(equipment) :
        LET before == equipment[i]
            after == equipment'[i]
            flag(e) == IF e.degradation.currentValue * 2 <= e.degradation.maxValue
                       THEN 1 ELSE 0
        IN  (/\ 0 <= before.inUse /\ before.inUse <= before.quantity
             /\ before.quantity - before.inUse - flag(before) >= 0) =>
                after.quantity - after.inUse - flag(after) >= 0

C26_AvailableNeverNegative == [][C26_AvailableStep]_vars

\* C27: every need emitted by generateProcurementNeeds has quantity >= 1 and
\* status pending, for consumables satisfying the data-model invariants,
\* reorderPoint = 0 included.
C27_EmittedNeedsOrderSomething ==
    (\A i \in 1..Len(consumables) :
        /\ consumables[i].stockLevel >= 0
        /\ consumables[i].reorderPoint >= consumables[i].minimumStock) =>
        \A j \in 1..Len(procurementNeeds) :
            procurementNeeds[j].quantity >= 1 /\ procurementNeeds[j].status = "pending"

\* C28: after fulfillProcurement(id) for a need present in the store, that
\* need is still in procurementNeeds with status received; for a consumable
\* need the consumable's stockLevel has grown by need.quantity and one purchase
\* transaction of that quantity has been recorded.
C28_FulfilStep ==
    \A id \in IdsOf(procurementNeeds) :
        FulfillProcurement(id) =>
            LET need == FindById(procurementNeeds, id)[1]
            IN  /\ \E j \in 1..Len(procurementNeeds') :
                      /\ procurementNeeds'[j].id = id
                      /\ procurementNeeds'[j].status = "received"
                /\ need.itemType = "consumable" =>
                      /\ \A i \in 1..Len(consumables) :
                            consumables[i].id = need.itemId =>
                                consumables'[i].stockLevel
                                    = consumables[i].stockLevel + need.quantity
                      /\ Len(transactions') = Len(transactions) + 1
                      /\ transactions'[Len(transactions')].type = "purchase"
                      /\ transactions'[Len(transactions')].quantity = need.quantity

C28_FulfilledNeedReceived == [][C28_FulfilStep]_vars

\* C29: removeConsumable(id) removes only the consumable with that id, the
\* procurement needs whose itemId is id and the transactions of that
\* consumable: the transactions of every other consumable and of every asset,
\* and all other consumables, are left unchanged.
C29_RemoveStep ==
    \A id \in {"c1", "c2"} :
        RemoveConsumable(id) =>
            /\ consumables' = SelectSeq(consumables, LAMBDA c : c.id # id)
            /\ procurementNeeds' = SelectSeq(procurementNeeds, LAMBDA n : n.itemId # id)
            /\ transactions' =
                  SelectSeq(transactions,
                            LAMBDA t : ~("consumableId" \in DOMAIN t /\ t.consumableId = id))

C29_RemoveConsumableFrame == [][C29_RemoveStep]_vars

\* ---------------------------------------------------- awaited submissions
\* Every addTransaction call is awaited: a call starts when none is in flight,
\* and its continuations run from the job queue before anything else.
NextAwaited ==
    \/ \E tx \in ConcTxs : microtasks = <<>> /\ AddTransaction(tx)
    \/ RunMicrotask

SpecAwaited == InitConc /\ [][NextAwaited]_vars

\* C30: through addTransaction a transaction is appended to the log exactly
\* when it was applied.  A rejected transaction changes neither the entities nor
\* the log; an accepted one is appended once; and once the call has finished,
\* loading is false and the entities are the initial ones with the logged
\* transactions applied once each, in log order, every one of them accepted.
C30_Finished ==
    microtasks = <<>> =>
        /\ loading = FALSE
        /\ LET o == SerialOutcome(transactions, ConcConsumables, ConcEquipment)
           IN  o.accepted /\ o.consumables = consumables /\ o.equipment = equipment

C30_CallStep ==
    microtasks # <<>> =>
        LET m == Head(microtasks)
        IN  /\ ~m.success =>
                  /\ transactions' = transactions
                  /\ consumables' = consumables
                  /\ equipment' = equipment
            /\ (m.success /\ m.stage = "addTransaction") =>
                  transactions' = Append(transactions, m.tx)
            /\ m.stage = "addTransaction" => loading' = FALSE

====
